---------------------------- MODULE Spec2Model ----------------------------
(***************************************************************************)
(* A model of the terminal text editor of src/rust_editor/src/main.rs:     *)
(* the Editor struct, the Normal-mode and Search-mode keystroke handlers,  *)
(* the snapshot undo/redo history, the incremental search and the main     *)
(* input loop.                                                             *)
(*                                                                         *)
(* Strings are Rust Strings: sequences of UTF-8 bytes.  Every index the    *)
(* editor keeps (cursor_x, match columns) is a byte index, and the String  *)
(* operations panic on an index that is out of range or not on a character *)
(* boundary, exactly as the standard library does.                         *)
(***************************************************************************)
EXTENDS Integers, Sequences, FiniteSets, TLC

VARIABLES
    cursor_x,        \* Editor.cursor_x
    cursor_y,        \* Editor.cursor_y
    screen_cols,     \* Editor.screen_cols
    rows,            \* Editor.rows
    filename,        \* Editor.filename: <<>> is None, <<name>> is Some(name)
    dirty,           \* Editor.dirty
    last_key_age,    \* now - Editor.last_key_time in ms, saturating at DebounceMs
    last_key,        \* Editor.last_key: <<>> is None, <<event>> is Some(event)
    col_offset,      \* Editor.col_offset
    undo_stack,      \* Editor.undo_stack
    redo_stack,      \* Editor.redo_stack
    search_mode,     \* Editor.search_mode
    search_query,    \* Editor.search_query
    search_results,  \* Editor.search_results
    current_match,   \* Editor.current_match
    pc,              \* position of main: "running", "exited" or "panicked"
    drawn            \* what draw_rows last printed: the tokens of every row

vars == <<cursor_x, cursor_y, screen_cols, rows, filename, dirty, last_key_age,
          last_key, col_offset, undo_stack, redo_stack, search_mode,
          search_query, search_results, current_match, pc, drawn>>

---------------------------------------------------------------------------
(* Bounds of the model *)

\* longest line, in bytes, a character insert may produce
MaxLineLen == 3
\* most lines an Enter may produce
MaxRows == 2
\* deepest undo stack an edit may produce when every key of both modes is live
MaxUndo == 1
\* deepest undo stack an edit may produce when only editing keys are live
MaxEdits == 2
\* deepest undo stack an edit may produce in a session of typing alone
MaxTyped == 4
\* most characters of a file that is searched
MaxFileLen == 4
\* longest search query, in bytes, a typed character may produce
MaxQuery == 2
\* width of the terminal
ScreenCols == 2
\* width of the terminal when lines are drawn
DrawCols == 3
\* most characters of a line that is drawn
MaxDrawn == 4

\* the debounce interval of process_keypress, in ms
DebounceMs == 50

\* delays between two key events, in ms: a slow typist's, and anyone's
SlowDelays == {50}
AllDelays == {30, 50}
\* the same, keys bouncing and keys typed through a macro included
QuickDelays == {15, 50}

---------------------------------------------------------------------------
(* Characters and strings *)

\* the characters a key can carry, as their UTF-8 encodings
ch_a == <<97>>
ch_A == <<65>>
ch_eacute == <<195, 169>>
ch_q == <<113>>
ch_s == <<115>>
ch_z == <<122>>
ch_x == <<120>>
ch_f == <<102>>

Min(a, b) == IF a < b THEN a ELSE b

\* a UTF-8 continuation byte
IsContinuation(b) == b \in 128..191

\* the number of bytes of the character whose first byte is b
Utf8Width(b) ==
    IF b < 128 THEN 1 ELSE IF b < 224 THEN 2 ELSE IF b < 240 THEN 3 ELSE 4

\* str::is_char_boundary
IsCharBoundary(s, idx) ==
    \/ idx = 0
    \/ idx = Len(s)
    \/ idx < Len(s) /\ ~IsContinuation(s[idx + 1])

\* s[from..]
SliceFrom(s, from) == SubSeq(s, from + 1, Len(s))

\* s[..to]
SliceTo(s, to) == SubSeq(s, 1, to)

\* String::insert(idx, c) panics unless idx is a char boundary
CanInsert(s, idx) == IsCharBoundary(s, idx) /\ idx <= Len(s)
StrInsert(s, idx, c) == SliceTo(s, idx) \o c \o SliceFrom(s, idx)

\* String::remove(idx) panics unless a character starts at idx
CanRemove(s, idx) == idx < Len(s) /\ IsCharBoundary(s, idx)
StrRemove(s, idx) == SliceTo(s, idx) \o SliceFrom(s, idx + Utf8Width(s[idx + 1]))

\* String::split_off(at) panics unless at is a char boundary
CanSplitOff(s, at) == at <= Len(s) /\ IsCharBoundary(s, at)

\* String::pop removes the last character
RECURSIVE LastCharStart(_, _)
LastCharStart(s, i) ==
    IF i = 0 \/ ~IsContinuation(s[i + 1]) THEN i ELSE LastCharStart(s, i - 1)
StrPop(s) == IF s = <<>> THEN s ELSE SliceTo(s, LastCharStart(s, Len(s) - 1))

\* str::to_lowercase on the characters of the model: ASCII capitals map to
\* their small letters, every other byte is kept
LowerByte(b) == IF b \in 65..90 THEN b + 32 ELSE b
to_lowercase(s) == [i \in 1..Len(s) |-> LowerByte(s[i])]

\* str::find: the first byte index at which pat occurs in s, -1 for None
Occurs(s, pat, pos) ==
    /\ pos + Len(pat) <= Len(s)
    /\ SubSeq(s, pos + 1, pos + Len(pat)) = pat
Find(s, pat) ==
    LET hits == {pos \in 0..Len(s) : Occurs(s, pat, pos)}
    IN  IF hits = {} THEN -1
        ELSE CHOOSE pos \in hits : \A other \in hits : pos <= other

\* Vec::insert and Vec::remove, with 0-based indices
VecInsert(v, idx, x) == SubSeq(v, 1, idx) \o <<x>> \o SubSeq(v, idx + 1, Len(v))
VecRemove(v, idx) == SubSeq(v, 1, idx) \o SubSeq(v, idx + 2, Len(v))

\* str::lines: split at "\n" (a "\r" before it belongs to the terminator), a
\* final empty piece is no line
StripCr(s) == IF s # <<>> /\ s[Len(s)] = 13 THEN SliceTo(s, Len(s) - 1) ELSE s
RECURSIVE lines(_)
lines(contents) ==
    IF contents = <<>> THEN <<>>
    ELSE LET nl == Find(contents, <<10>>)
         IN  IF nl = -1 THEN <<contents>>
             ELSE <<StripCr(SliceTo(contents, nl))>>
                      \o lines(SliceFrom(contents, nl + 1))

---------------------------------------------------------------------------
(* Key events *)

\* KeyEvent { code, modifiers, kind }
Key(k, c) == [key |-> k, ch |-> c]
Event(kind, code, modifiers) == [kind |-> kind, code |-> code, modifiers |-> modifiers]
Press(code, modifiers) == Event("Press", code, modifiers)

IsChar(code) == code.key = "Char"
IsCharOf(code, c) == code.key = "Char" /\ code.ch = c

\* the key events the keyboard delivers in the model
TypedChars == {ch_a, ch_A, ch_eacute}
KeyEvents ==
    {Press(Key("Char", c), {}) : c \in TypedChars}
    \cup {Press(Key("Char", ch_q), {"ALT"}), Press(Key("Char", ch_s), {"ALT"}),
          Press(Key("Char", ch_z), {"CONTROL"}), Press(Key("Char", ch_x), {"CONTROL"}),
          Press(Key("Char", ch_f), {"ALT"})}
    \cup {Press(Key(k, <<>>), {}) :
            k \in {"Backspace", "Enter", "Esc", "Left", "Right", "Up", "Down"}}
    \cup {Event("Release", Key("Char", ch_a), {}),
          Event("Release", Key("Char", ch_f), {"ALT"}),
          Event("Repeat", Key("Backspace", <<>>), {})}

---------------------------------------------------------------------------
(* The editor as a value: the handlers are functions from Editor to Editor *)

Ed ==
    [cursor_x |-> cursor_x, cursor_y |-> cursor_y, screen_cols |-> screen_cols,
     rows |-> rows, filename |-> filename, dirty |-> dirty,
     last_key_age |-> last_key_age, last_key |-> last_key,
     col_offset |-> col_offset, undo_stack |-> undo_stack,
     redo_stack |-> redo_stack, search_mode |-> search_mode,
     search_query |-> search_query, search_results |-> search_results,
     current_match |-> current_match, pc |-> pc]

\* a panic aborts the program where it stands
Panic(s) == [s EXCEPT !.pc = "panicked"]

\* Editor::new
new(cols) ==
    [cursor_x |-> 0, cursor_y |-> 0, screen_cols |-> cols,
     rows |-> << <<>> >>, filename |-> <<>>, dirty |-> FALSE,
     last_key_age |-> 0, last_key |-> <<>>,
     col_offset |-> 0, undo_stack |-> <<>>,
     redo_stack |-> <<>>, search_mode |-> FALSE,
     search_query |-> <<>>, search_results |-> <<>>,
     current_match |-> 0, pc |-> "running"]

\* Editor::open, the file read having succeeded with `contents`
open(s, name, contents) ==
    [s EXCEPT !.rows = lines(contents), !.filename = <<name>>, !.dirty = FALSE]

\* Editor::save; write_ok is whether fs::write succeeds.  The result is the
\* editor and whether save returned Ok.
save(s, write_ok) ==
    IF s.filename # <<>>
    THEN IF write_ok THEN [ed |-> [s EXCEPT !.dirty = FALSE], ok |-> TRUE]
                     ELSE [ed |-> s, ok |-> FALSE]
    ELSE [ed |-> s, ok |-> TRUE]

\* Editor::snapshot
snapshot(s) == [buffer |-> s.rows, cursor_x |-> s.cursor_x, cursor_y |-> s.cursor_y]

\* restore, forgetting the cursor
restore_rows_only(s, state) == [s EXCEPT !.rows = state.buffer]

\* Editor::restore
restore(s, state) ==
    [s EXCEPT !.rows = state.buffer, !.cursor_x = state.cursor_x,
              !.cursor_y = state.cursor_y]

\* push_undo, forgetting to clear the redo history
push_undo_keeps_redo(s) ==
    [s EXCEPT !.undo_stack = Append(s.undo_stack, snapshot(s))]

\* Editor::push_undo
push_undo(s) ==
    [s EXCEPT !.undo_stack = Append(s.undo_stack, snapshot(s)), !.redo_stack = <<>>]

\* scroll_to_cursor, scrolling one column short when the cursor is to the right
scroll_to_cursor_one_short(s) ==
    IF s.cursor_x < s.col_offset
    THEN [s EXCEPT !.col_offset = s.cursor_x]
    ELSE IF s.cursor_x >= s.col_offset + s.screen_cols
         THEN [s EXCEPT !.col_offset = s.cursor_x - s.screen_cols]
         ELSE s

\* Editor::scroll_to_cursor, and the same lines at the end of process_keypress
scroll_to_cursor(s) ==
    IF s.cursor_x < s.col_offset
    THEN [s EXCEPT !.col_offset = s.cursor_x]
    ELSE IF s.cursor_x >= s.col_offset + s.screen_cols
         THEN [s EXCEPT !.col_offset = s.cursor_x - s.screen_cols + 1]
         ELSE s

---------------------------------------------------------------------------
(* Editor::process_keypress: the arms of its match *)

RowInRange(s) == s.cursor_y < Len(s.rows)
\* self.rows[i], a 0-based index
Row(s, i) == s.rows[i + 1]

\* KeyCode::Char('s') with ALT
arm_save(s, write_ok) == [save(s, write_ok).ed EXCEPT !.dirty = FALSE]

\* the undo arm, forgetting to push the current state for redo
arm_undo_no_redo(s) ==
    IF s.undo_stack # <<>>
    THEN restore([s EXCEPT !.undo_stack = SliceTo(s.undo_stack, Len(s.undo_stack) - 1)],
                 s.undo_stack[Len(s.undo_stack)])
    ELSE s

\* KeyCode::Char('z') with CONTROL
arm_undo(s) ==
    IF s.undo_stack # <<>>
    THEN LET prev == s.undo_stack[Len(s.undo_stack)]
             popped == [s EXCEPT !.undo_stack = SliceTo(s.undo_stack, Len(s.undo_stack) - 1)]
             pushed == [popped EXCEPT !.redo_stack = Append(popped.redo_stack, snapshot(popped))]
         IN  restore(pushed, prev)
    ELSE s

\* KeyCode::Char('x') with CONTROL
arm_redo(s) ==
    IF s.redo_stack # <<>>
    THEN LET next == s.redo_stack[Len(s.redo_stack)]
             popped == [s EXCEPT !.redo_stack = SliceTo(s.redo_stack, Len(s.redo_stack) - 1)]
             pushed == [popped EXCEPT !.undo_stack = Append(popped.undo_stack, snapshot(popped))]
         IN  restore(pushed, next)
    ELSE s

\* KeyCode::Char(c)
arm_char(s, c) ==
    LET u == push_undo(s)
    IN  IF RowInRange(u) /\ u.cursor_x <= Len(Row(u, u.cursor_y))
        THEN IF CanInsert(Row(u, u.cursor_y), u.cursor_x)
             THEN [u EXCEPT !.rows[u.cursor_y + 1] = StrInsert(@, u.cursor_x, c),
                            !.cursor_x = @ + 1,
                            !.dirty = TRUE]
             ELSE Panic(u)
        ELSE u

\* the Backspace arm, taking the column after the lines were joined
arm_backspace_column_after_join(s) ==
    LET u == push_undo(s)
    IN  IF RowInRange(u)
        THEN IF u.cursor_x > 0
             THEN IF CanRemove(Row(u, u.cursor_y), u.cursor_x - 1)
                  THEN [u EXCEPT !.rows[u.cursor_y + 1] = StrRemove(@, u.cursor_x - 1),
                                 !.cursor_x = @ - 1,
                                 !.dirty = TRUE]
                  ELSE Panic(u)
             ELSE IF u.cursor_y > 0
                  THEN LET current_line == Row(u, u.cursor_y)
                           removed == VecRemove(u.rows, u.cursor_y)
                           y == u.cursor_y - 1
                       IN  [u EXCEPT !.rows = [removed EXCEPT ![y + 1] = @ \o current_line],
                                     !.cursor_y = y,
                                     !.cursor_x = Len(removed[y + 1] \o current_line),
                                     !.dirty = TRUE]
                  ELSE u
        ELSE u

\* KeyCode::Backspace
arm_backspace(s) ==
    LET u == push_undo(s)
    IN  IF RowInRange(u)
        THEN IF u.cursor_x > 0
             THEN IF CanRemove(Row(u, u.cursor_y), u.cursor_x - 1)
                  THEN [u EXCEPT !.rows[u.cursor_y + 1] = StrRemove(@, u.cursor_x - 1),
                                 !.cursor_x = @ - 1,
                                 !.dirty = TRUE]
                  ELSE Panic(u)
             ELSE IF u.cursor_y > 0
                  THEN LET current_line == Row(u, u.cursor_y)
                           removed == VecRemove(u.rows, u.cursor_y)
                           y == u.cursor_y - 1
                       IN  [u EXCEPT !.rows = [removed EXCEPT ![y + 1] = @ \o current_line],
                                     !.cursor_y = y,
                                     !.cursor_x = Len(removed[y + 1]),
                                     !.dirty = TRUE]
                  ELSE u
        ELSE u

\* the Enter arm, inserting the new line above the row instead of below it
arm_enter_line_above(s) ==
    LET u == push_undo(s)
    IN  IF RowInRange(u)
        THEN IF CanSplitOff(Row(u, u.cursor_y), u.cursor_x)
             THEN LET line == Row(u, u.cursor_y)
                      new_line == SliceFrom(line, u.cursor_x)
                      kept == [u.rows EXCEPT ![u.cursor_y + 1] = SliceTo(line, u.cursor_x)]
                  IN  [u EXCEPT !.rows = VecInsert(kept, u.cursor_y, new_line),
                                !.cursor_y = @ + 1,
                                !.cursor_x = 0,
                                !.dirty = TRUE]
             ELSE Panic(u)
        ELSE u

\* the Enter arm, leaving the column where it was
arm_enter_keeps_column(s) ==
    LET u == push_undo(s)
    IN  IF RowInRange(u)
        THEN IF CanSplitOff(Row(u, u.cursor_y), u.cursor_x)
             THEN LET line == Row(u, u.cursor_y)
                      new_line == SliceFrom(line, u.cursor_x)
                      kept == [u.rows EXCEPT ![u.cursor_y + 1] = SliceTo(line, u.cursor_x)]
                  IN  [u EXCEPT !.rows = VecInsert(kept, u.cursor_y + 1, new_line),
                                !.cursor_y = @ + 1,
                                !.dirty = TRUE]
             ELSE Panic(u)
        ELSE u

\* KeyCode::Enter
arm_enter(s) ==
    LET u == push_undo(s)
    IN  IF RowInRange(u)
        THEN IF CanSplitOff(Row(u, u.cursor_y), u.cursor_x)
             THEN LET line == Row(u, u.cursor_y)
                      new_line == SliceFrom(line, u.cursor_x)
                      kept == [u.rows EXCEPT ![u.cursor_y + 1] = SliceTo(line, u.cursor_x)]
                  IN  [u EXCEPT !.rows = VecInsert(kept, u.cursor_y + 1, new_line),
                                !.cursor_y = @ + 1,
                                !.cursor_x = 0,
                                !.dirty = TRUE]
             ELSE Panic(u)
        ELSE u

\* KeyCode::Left
arm_left(s) ==
    IF s.cursor_x > 0
    THEN [s EXCEPT !.cursor_x = @ - 1]
    ELSE IF s.cursor_y > 0
         THEN IF s.cursor_y - 1 < Len(s.rows)
              THEN [s EXCEPT !.cursor_y = @ - 1,
                             !.cursor_x = Len(Row(s, s.cursor_y - 1))]
              ELSE Panic([s EXCEPT !.cursor_y = @ - 1])
         ELSE s

\* KeyCode::Right
arm_right(s) ==
    IF RowInRange(s)
    THEN IF s.cursor_x < Len(Row(s, s.cursor_y))
         THEN [s EXCEPT !.cursor_x = @ + 1]
         ELSE IF s.cursor_y + 1 < Len(s.rows)
              THEN [s EXCEPT !.cursor_y = @ + 1, !.cursor_x = 0]
              ELSE s
    ELSE s

\* KeyCode::Up
arm_up(s) ==
    IF s.cursor_y > 0
    THEN IF s.cursor_y - 1 < Len(s.rows)
         THEN [s EXCEPT !.cursor_y = @ - 1,
                        !.cursor_x = Min(@, Len(Row(s, s.cursor_y - 1)))]
         ELSE Panic([s EXCEPT !.cursor_y = @ - 1])
    ELSE s

\* KeyCode::Down
arm_down(s) ==
    IF s.cursor_y + 1 < Len(s.rows)
    THEN [s EXCEPT !.cursor_y = @ + 1,
                   !.cursor_x = Min(@, Len(Row(s, s.cursor_y + 1)))]
    ELSE s

\* the arm of the match that takes a pressed key
NormalArm(event) ==
    IF IsCharOf(event.code, ch_q) /\ "ALT" \in event.modifiers THEN "quit"
    ELSE IF IsCharOf(event.code, ch_s) /\ "ALT" \in event.modifiers THEN "save"
    ELSE IF IsCharOf(event.code, ch_z) /\ "CONTROL" \in event.modifiers THEN "undo"
    ELSE IF IsCharOf(event.code, ch_x) /\ "CONTROL" \in event.modifiers THEN "redo"
    ELSE IF IsChar(event.code) THEN "char"
    ELSE IF event.code.key \in {"Backspace", "Enter", "Left", "Right", "Up", "Down"}
         THEN event.code.key
    ELSE "other"

\* the debounce test, forgetting to compare the keys
Debounced_any_key(s, event, now) ==
    /\ s.last_key # <<>>
    /\ now < DebounceMs

\* the debounce test: the same key as the last one, less than 50 ms after it
Debounced(s, event, now) ==
    /\ s.last_key # <<>>
    /\ now < DebounceMs
    /\ s.last_key[1].code = event.code
    /\ s.last_key[1].modifiers = event.modifiers

\* the branch process_keypress takes
NormalBranch(s, event, now) ==
    IF event.kind # "Press" THEN "not_press"
    ELSE IF Debounced(s, event, now) THEN "debounced"
    ELSE NormalArm(event)

\* Editor::process_keypress; now is the age of last_key_time when the event
\* arrives.  A result with pc = "exited" is the handler returning true.
process_keypress(s, event, now, write_ok) ==
    LET branch == NormalBranch(s, event, now)
    IN  IF branch \in {"not_press", "debounced"} THEN s
        ELSE LET k == [s EXCEPT !.last_key_age = 0, !.last_key = <<event>>]
                 r == CASE branch = "quit" -> [k EXCEPT !.pc = "exited"]
                        [] branch = "save" -> arm_save(k, write_ok)
                        [] branch = "undo" -> arm_undo(k)
                        [] branch = "redo" -> arm_redo(k)
                        [] branch = "char" -> arm_char(k, event.code.ch)
                        [] branch = "Backspace" -> arm_backspace(k)
                        [] branch = "Enter" -> arm_enter(k)
                        [] branch = "Left" -> arm_left(k)
                        [] branch = "Right" -> arm_right(k)
                        [] branch = "Up" -> arm_up(k)
                        [] branch = "Down" -> arm_down(k)
                        [] OTHER -> k
             IN  IF r.pc = "running" THEN scroll_to_cursor(r) ELSE r

---------------------------------------------------------------------------
(* Search *)

\* Editor::start_search
start_search(s) ==
    [s EXCEPT !.search_mode = TRUE, !.search_query = <<>>,
              !.search_results = <<>>, !.current_match = 0]

\* the scan of a line, resuming after the end of each match
RECURSIVE ScanLineSkipping(_, _, _, _, _)
ScanLineSkipping(i, line_lower, q, start, found) ==
    IF ~(start <= Len(line_lower) /\ IsCharBoundary(line_lower, start))
    THEN [results |-> found, panicked |-> TRUE]
    ELSE LET pos == Find(SliceFrom(line_lower, start), q)
         IN  IF pos = -1
             THEN [results |-> found, panicked |-> FALSE]
             ELSE ScanLineSkipping(i, line_lower, q, start + pos + Len(q),
                                   Append(found, <<i, start + pos>>))

\* the while-let loop of perform_search over one lowercased line: the matches
\* pushed, and whether the slice line_lower[start..] panicked
RECURSIVE ScanLine(_, _, _, _, _)
ScanLine(i, line_lower, q, start, found) ==
    IF ~(start <= Len(line_lower) /\ IsCharBoundary(line_lower, start))
    THEN [results |-> found, panicked |-> TRUE]
    ELSE LET pos == Find(SliceFrom(line_lower, start), q)
         IN  IF pos = -1
             THEN [results |-> found, panicked |-> FALSE]
             ELSE ScanLine(i, line_lower, q, start + pos + 1,
                           Append(found, <<i, start + pos>>))

\* the for loop of perform_search over the lines from row i on
RECURSIVE ScanRows(_, _, _, _)
ScanRows(buffer, q, i, found) ==
    IF i >= Len(buffer) THEN [results |-> found, panicked |-> FALSE]
    ELSE LET one == ScanLine(i, to_lowercase(buffer[i + 1]), q, 0, found)
         IN  IF one.panicked THEN one
             ELSE ScanRows(buffer, q, i + 1, one.results)

\* perform_search, keeping the index of the match it was on
perform_search_keeps_match(s) ==
    LET cleared == [s EXCEPT !.search_results = <<>>]
    IN  IF s.search_query = <<>> THEN cleared
        ELSE LET scan == ScanRows(s.rows, to_lowercase(s.search_query), 0, <<>>)
                 found == [cleared EXCEPT !.search_results = scan.results]
             IN  IF scan.panicked THEN Panic(found)
                 ELSE LET reset == found
                      IN  IF reset.search_results # <<>>
                          THEN LET row == reset.search_results[1][1]
                                   col == reset.search_results[1][2]
                               IN  scroll_to_cursor([reset EXCEPT !.cursor_x = row,
                                                                  !.cursor_y = col])
                          ELSE reset

\* Editor::perform_search
perform_search(s) ==
    LET cleared == [s EXCEPT !.search_results = <<>>]
    IN  IF s.search_query = <<>> THEN cleared
        ELSE LET scan == ScanRows(s.rows, to_lowercase(s.search_query), 0, <<>>)
                 found == [cleared EXCEPT !.search_results = scan.results]
             IN  IF scan.panicked THEN Panic(found)
                 ELSE LET reset == [found EXCEPT !.current_match = 0]
                      IN  IF reset.search_results # <<>>
                          THEN LET row == reset.search_results[1][1]
                                   col == reset.search_results[1][2]
                               IN  scroll_to_cursor([reset EXCEPT !.cursor_x = row,
                                                                  !.cursor_y = col])
                          ELSE reset

\* the branch process_search_keypress takes
SearchBranch(event) ==
    IF event.kind # "Press" THEN "search_not_press"
    ELSE IF event.code.key = "Esc" THEN "search_esc"
    ELSE IF event.code.key = "Enter" THEN "search_enter"
    ELSE IF event.code.key = "Backspace" THEN "search_backspace"
    ELSE IF IsChar(event.code) THEN "search_char"
    ELSE "search_other"

\* the search Enter, stopping at the last match instead of wrapping
search_enter_no_wrap(s) ==
    IF s.search_results = <<>> THEN s
    ELSE LET next == Min(s.current_match + 1, Len(s.search_results) - 1)
             row == s.search_results[next + 1][1]
             col == s.search_results[next + 1][2]
         IN  scroll_to_cursor([s EXCEPT !.current_match = next,
                                        !.cursor_y = row,
                                        !.cursor_x = col])

\* KeyCode::Enter of process_search_keypress
search_enter(s) ==
    IF s.search_results = <<>> THEN s
    ELSE LET next == (s.current_match + 1) % Len(s.search_results)
             row == s.search_results[next + 1][1]
             col == s.search_results[next + 1][2]
         IN  scroll_to_cursor([s EXCEPT !.current_match = next,
                                        !.cursor_y = row,
                                        !.cursor_x = col])

\* process_search_keypress, Esc leaving the query and the results in place
process_search_keypress_esc_keeps_search(s, event) ==
    LET branch == SearchBranch(event)
    IN  CASE branch = "search_esc" -> [s EXCEPT !.search_mode = FALSE]
          [] branch = "search_enter" -> search_enter(s)
          [] branch = "search_backspace" ->
               perform_search([s EXCEPT !.search_query = StrPop(@)])
          [] branch = "search_char" ->
               perform_search([s EXCEPT !.search_query = @ \o event.code.ch])
          [] OTHER -> s

\* Editor::process_search_keypress
process_search_keypress(s, event) ==
    LET branch == SearchBranch(event)
    IN  CASE branch = "search_esc" ->
               [s EXCEPT !.search_mode = FALSE, !.search_query = <<>>,
                         !.search_results = <<>>]
          [] branch = "search_enter" -> search_enter(s)
          [] branch = "search_backspace" ->
               perform_search([s EXCEPT !.search_query = StrPop(@)])
          [] branch = "search_char" ->
               perform_search([s EXCEPT !.search_query = @ \o event.code.ch])
          [] OTHER -> s

---------------------------------------------------------------------------
(* Rendering: draw_rows and highlight_line *)

ch_slash == <<47>>
ch_quote == <<34>>
ch_one == <<49>>
ch_underscore == <<95>>
\* the marker draw_rows puts before a line that is scrolled
ch_marker == <<194, 187>>

\* the reserved words and the type names of highlight_line, as bytes
keywords ==
    {<<102, 110>>, <<108, 101, 116>>, <<109, 117, 116>>, <<105, 102>>,
     <<101, 108, 115, 101>>, <<109, 97, 116, 99, 104>>,
     <<119, 104, 105, 108, 101>>, <<108, 111, 111, 112>>, <<102, 111, 114>>,
     <<105, 110>>, <<114, 101, 116, 117, 114, 110>>,
     <<115, 116, 114, 117, 99, 116>>, <<105, 109, 112, 108>>,
     <<101, 110, 117, 109>>, <<117, 115, 101>>, <<109, 111, 100>>,
     <<112, 117, 98>>, <<99, 114, 97, 116, 101>>, <<99, 111, 110, 115, 116>>,
     <<115, 116, 97, 116, 105, 99>>, <<97, 115>>, <<98, 114, 101, 97, 107>>,
     <<99, 111, 110, 116, 105, 110, 117, 101>>, <<116, 114, 97, 105, 116>>,
     <<119, 104, 101, 114, 101>>, <<114, 101, 102>>, <<116, 121, 112, 101>>}
types ==
    {<<117, 115, 105, 122, 101>>, <<83, 116, 114, 105, 110, 103>>,
     <<82, 101, 115, 117, 108, 116>>, <<79, 112, 116, 105, 111, 110>>,
     <<86, 101, 99>>, <<105, 51, 50>>, <<117, 51, 50>>, <<98, 111, 111, 108>>}

\* str::chars: the characters of a string, each as its bytes
RECURSIVE Chars(_)
Chars(s) ==
    IF s = <<>> THEN <<>>
    ELSE LET w == Min(Utf8Width(s[1]), Len(s))
         IN  <<SubSeq(s, 1, w)>> \o Chars(SubSeq(s, w + 1, Len(s)))

\* the string made of a run of characters, chars[from..to].iter().collect()
RECURSIVE Collect(_, _, _)
Collect(chars, from, to) ==
    IF from >= to THEN <<>> ELSE chars[from + 1] \o Collect(chars, from + 1, to)

\* char::is_ascii_digit and char::is_alphanumeric on the characters of the model
is_ascii_digit(c) == Len(c) = 1 /\ c[1] \in 48..57
is_alphanumeric(c) ==
    \/ Len(c) = 1 /\ c[1] \in (48..57) \cup (65..90) \cup (97..122)
    \/ c = ch_eacute
IsWordChar(c) == is_alphanumeric(c) \/ c = ch_underscore

\* the index of the first character from i on that fails the test of a run:
\* 0 is a closing quote, 1 a digit, 2 a word character
RECURSIVE RunEnd(_, _, _)
RunEnd(chars, i, run) ==
    IF i < Len(chars) /\ CASE run = 0 -> chars[i + 1] # ch_quote
                           [] run = 1 -> is_ascii_digit(chars[i + 1])
                           [] OTHER -> IsWordChar(chars[i + 1])
    THEN RunEnd(chars, i + 1, run)
    ELSE i

Token(text, color) == [text |-> text, color |-> color]

\* the while loop of highlight_line from character i on: the tokens pushed and
\* whether the slice line[i..] panicked
RECURSIVE Tokenize(_, _, _, _)
Tokenize(line, chars, i, result) ==
    IF i >= Len(chars) THEN [tokens |-> result, panicked |-> FALSE]
    ELSE LET c == chars[i + 1]
         IN  IF c = ch_slash /\ i + 1 < Len(chars) /\ chars[i + 2] = ch_slash
             THEN IF IsCharBoundary(line, i)
                  THEN [tokens |-> Append(result, Token(SliceFrom(line, i), "DarkGrey")),
                        panicked |-> FALSE]
                  ELSE [tokens |-> result, panicked |-> TRUE]
             ELSE IF c = ch_quote
             THEN LET close == RunEnd(chars, i + 1, 0)
                      end == IF close < Len(chars) THEN close + 1 ELSE close
                  IN  Tokenize(line, chars, end,
                               Append(result, Token(Collect(chars, i, end), "Green")))
             ELSE IF is_ascii_digit(c)
             THEN LET end == RunEnd(chars, i, 1)
                  IN  Tokenize(line, chars, end,
                               Append(result, Token(Collect(chars, i, end), "Magenta")))
             ELSE IF IsWordChar(c)
             THEN LET end == RunEnd(chars, i, 2)
                      word == Collect(chars, i, end)
                      color == IF word \in keywords THEN "Blue"
                               ELSE IF word \in types THEN "Cyan" ELSE "Reset"
                  IN  Tokenize(line, chars, end, Append(result, Token(word, color)))
             ELSE Tokenize(line, chars, i + 1, Append(result, Token(c, "Reset")))

\* Editor::highlight_line
highlight_line(line) == Tokenize(line, Chars(line), 0, <<>>)

\* visible.chars().take(n).collect()
Take(s, n) == LET chars == Chars(s) IN Collect(chars, 0, Min(n, Len(chars)))

\* the line draw_rows hands to highlight_line for row i, and whether the slice
\* line[col_offset..] panicked
display_line(s, i) ==
    LET line == s.rows[i + 1]
        sliced == s.col_offset < Len(line)
        visible == IF sliced THEN SliceFrom(line, s.col_offset) ELSE <<>>
    IN  [text |-> IF s.col_offset > 0
                  THEN ch_marker \o Take(visible, s.screen_cols - 1)
                  ELSE Take(visible, s.screen_cols),
         panicked |-> sliced /\ ~IsCharBoundary(line, s.col_offset)]

\* Editor::draw_rows: the tokens printed for every row of the buffer, and
\* whether drawing panicked
RECURSIVE draw_rows(_, _, _)
draw_rows(s, i, printed) ==
    IF i >= Len(s.rows) THEN [printed |-> printed, panicked |-> FALSE]
    ELSE LET shown == display_line(s, i)
             r == highlight_line(shown.text)
         IN  IF shown.panicked \/ r.panicked
             THEN [printed |-> printed, panicked |-> TRUE]
             ELSE draw_rows(s, i + 1, Append(printed, r.tokens))

---------------------------------------------------------------------------
(* main *)

\* the age of last_key_time when an event arrives dt ms after the one before
Now(s, dt) == Min(DebounceMs, s.last_key_age + dt)

IsSearchKey(event) == IsCharOf(event.code, ch_f) /\ "ALT" \in event.modifiers

\* the branch one iteration of the input loop takes
MainBranch(s, event, dt, write_ok) ==
    IF s.search_mode THEN SearchBranch(event)
    ELSE IF IsSearchKey(event) THEN "start_search"
    ELSE LET branch == NormalBranch(s, event, Now(s, dt))
         IN  IF branch # "save" THEN branch
             ELSE IF s.filename = <<>> THEN "save_unnamed"
             ELSE IF write_ok THEN "save_ok" ELSE "save_failed"

\* one iteration of the input loop of main on a key event
main_loop(s, event, dt, write_ok) ==
    LET t == [s EXCEPT !.last_key_age = Now(s, dt)]
    IN  IF t.search_mode THEN process_search_keypress(t, event)
        ELSE IF IsSearchKey(event) THEN start_search(t)
        ELSE process_keypress(t, event, Now(s, dt), write_ok)

\* the contents of the file named on the command line, when it exists
Files == {<<>>, <<10, 97, 65>>}

\* main up to the input loop: no argument, a path that does not exist, or a
\* file that is read
Fresh == {new(ScreenCols)}
Startups ==
    Fresh
    \cup {[new(ScreenCols) EXCEPT !.filename = <<"file">>]}
    \cup {open(new(ScreenCols), "file", contents) : contents \in Files}

---------------------------------------------------------------------------
(* The state machine *)

Commit(s) ==
    /\ cursor_x' = s.cursor_x
    /\ cursor_y' = s.cursor_y
    /\ screen_cols' = s.screen_cols
    /\ rows' = s.rows
    /\ filename' = s.filename
    /\ dirty' = s.dirty
    /\ last_key_age' = s.last_key_age
    /\ last_key' = s.last_key
    /\ col_offset' = s.col_offset
    /\ undo_stack' = s.undo_stack
    /\ redo_stack' = s.redo_stack
    /\ search_mode' = s.search_mode
    /\ search_query' = s.search_query
    /\ search_results' = s.search_results
    /\ current_match' = s.current_match
    /\ pc' = s.pc
    /\ drawn' = drawn

StartFrom(startups) ==
    \E s \in startups :
        /\ cursor_x = s.cursor_x
        /\ cursor_y = s.cursor_y
        /\ screen_cols = s.screen_cols
        /\ rows = s.rows
        /\ filename = s.filename
        /\ dirty = s.dirty
        /\ last_key_age = s.last_key_age
        /\ last_key = s.last_key
        /\ col_offset = s.col_offset
        /\ undo_stack = s.undo_stack
        /\ redo_stack = s.redo_stack
        /\ search_mode = s.search_mode
        /\ search_query = s.search_query
        /\ search_results = s.search_results
        /\ current_match = s.current_match
        /\ pc = s.pc
        /\ drawn = <<>>

\* the bounds of the model on what a key may grow
InBounds(s, event, branch, depth) ==
    /\ branch \in {"char", "Backspace", "Enter"} => Len(s.undo_stack) < depth
    /\ branch = "char" /\ RowInRange(s)
          => Len(Row(s, s.cursor_y)) + Len(event.code.ch) <= MaxLineLen
    /\ branch = "Enter" => Len(s.rows) < MaxRows
    /\ branch = "search_char" => Len(s.search_query) + Len(event.code.ch) <= MaxQuery

\* the write outcomes to consider: only a save of a named buffer writes
Outcomes(s, event) ==
    IF ~s.search_mode /\ NormalArm(event) = "save" /\ s.filename # <<>>
    THEN BOOLEAN ELSE {TRUE}

\* the events a branch of process_keypress can take
Pressed == {event \in KeyEvents : event.kind = "Press"}
NotPressed == KeyEvents \ Pressed
ArmEvents(arm) == {event \in Pressed : ~IsSearchKey(event) /\ NormalArm(event) = arm}
QuitEvents == ArmEvents("quit")
SaveEvents == ArmEvents("save")
UndoEvents == ArmEvents("undo")
RedoEvents == ArmEvents("redo")
CharEvents == ArmEvents("char")
BackspaceEvents == ArmEvents("Backspace")
EnterEvents == ArmEvents("Enter")
LeftEvents == ArmEvents("Left")
RightEvents == ArmEvents("Right")
UpEvents == ArmEvents("Up")
DownEvents == ArmEvents("Down")
OtherEvents == ArmEvents("other")
EditEvents == CharEvents \cup BackspaceEvents \cup EnterEvents
SearchKeyEvents == {event \in KeyEvents : IsSearchKey(event)}

\* the events typed into the search prompt
SearchEvents ==
    {event \in KeyEvents : IsChar(event.code) => event.code.ch \in TypedChars}
    \cup {event \in NotPressed : IsSearchKey(event)}

\* what a specification explores: whether non-ASCII characters are typed, the
\* delays between the key events and the deepest undo stack
World(ascii, delays, depth) == [ascii |-> ascii, delays |-> delays, depth |-> depth]

\* one iteration of the input loop, on one of `events`, that takes `branch`
Step(branch, events, w) ==
    /\ pc = "running"
    /\ \E s \in {Ed}, event \in events, dt \in w.delays :
         \E write_ok \in Outcomes(s, event) :
            /\ w.ascii => Len(event.code.ch) <= 1
            /\ MainBranch(s, event, dt, write_ok) = branch
            /\ InBounds(s, event, branch, w.depth)
            /\ \E t \in {main_loop(s, event, dt, write_ok)} : Commit(t)

NotPress(w) == ~search_mode /\ Step("not_press", NotPressed, w)
Debounce(w) == ~search_mode /\ Step("debounced", Pressed, w)
Quit(w) == ~search_mode /\ Step("quit", QuitEvents, w)
SaveUnnamed(w) == ~search_mode /\ Step("save_unnamed", SaveEvents, w)
SaveOk(w) == ~search_mode /\ Step("save_ok", SaveEvents, w)
SaveFailed(w) == ~search_mode /\ Step("save_failed", SaveEvents, w)
Undo(w) == ~search_mode /\ Step("undo", UndoEvents, w)
Redo(w) == ~search_mode /\ Step("redo", RedoEvents, w)
InsertChar(w) == ~search_mode /\ Step("char", CharEvents, w)
Backspace(w) == ~search_mode /\ Step("Backspace", BackspaceEvents, w)
Enter(w) == ~search_mode /\ Step("Enter", EnterEvents, w)
Left(w) == ~search_mode /\ Step("Left", LeftEvents, w)
Right(w) == ~search_mode /\ Step("Right", RightEvents, w)
Up(w) == ~search_mode /\ Step("Up", UpEvents, w)
Down(w) == ~search_mode /\ Step("Down", DownEvents, w)
OtherKey(w) == ~search_mode /\ Step("other", OtherEvents, w)
StartSearch(w) == ~search_mode /\ Step("start_search", SearchKeyEvents, w)
SearchNotPress(w) == search_mode /\ Step("search_not_press", SearchEvents \cap NotPressed, w)
SearchEsc(w) == search_mode /\ Step("search_esc", SearchEvents \cap Pressed, w)
SearchEnter(w) == search_mode /\ Step("search_enter", SearchEvents \cap Pressed, w)
SearchBackspace(w) == search_mode /\ Step("search_backspace", SearchEvents \cap Pressed, w)
SearchChar(w) == search_mode /\ Step("search_char", SearchEvents \cap Pressed, w)
SearchOther(w) == search_mode /\ Step("search_other", SearchEvents \cap Pressed, w)

---------------------------------------------------------------------------
(* Spec: every key of both modes, typed by a slow typist (no two keys less
   than the debounce interval apart), from every way main can start *)

Whole == World(TRUE, SlowDelays, MaxUndo)

Init == StartFrom(Startups)

Next ==
    \/ NotPress(Whole) \/ Quit(Whole)
    \/ SaveUnnamed(Whole) \/ SaveOk(Whole) \/ SaveFailed(Whole)
    \/ Undo(Whole) \/ Redo(Whole)
    \/ InsertChar(Whole) \/ Backspace(Whole) \/ Enter(Whole)
    \/ Left(Whole) \/ Right(Whole) \/ Up(Whole) \/ Down(Whole) \/ OtherKey(Whole)
    \/ StartSearch(Whole)
    \/ SearchNotPress(Whole) \/ SearchEsc(Whole) \/ SearchEnter(Whole)
    \/ SearchBackspace(Whole) \/ SearchChar(Whole) \/ SearchOther(Whole)

Spec == Init /\ [][Next]_vars

---------------------------------------------------------------------------
(* SpecFresh: a fresh session in which only characters, Backspace and Enter
   are typed, at any speed *)

Typing == World(FALSE, AllDelays, MaxTyped)

InitFresh == StartFrom(Fresh)

NextFresh ==
    \/ InsertChar(Typing) \/ Backspace(Typing) \/ Enter(Typing)
    \/ Debounce(Typing)

SpecFresh == InitFresh /\ [][NextFresh]_vars

---------------------------------------------------------------------------
(* SpecHistory: editing, moving, undoing and redoing in Normal mode, typed by
   a slow typist, with a deeper history *)

Editing == World(TRUE, SlowDelays, MaxEdits)

NextHistory ==
    \/ Undo(Editing) \/ Redo(Editing)
    \/ InsertChar(Editing) \/ Backspace(Editing) \/ Enter(Editing)
    \/ Left(Editing) \/ Right(Editing)

SpecHistory == Init /\ [][NextHistory]_vars

---------------------------------------------------------------------------
(* SpecSearch: searching a file that was just opened, whatever its contents,
   every character typed into the prompt *)

\* the texts of at most n characters over the alphabet
RECURSIVE Texts(_, _)
Texts(alphabet, n) ==
    IF n = 0 THEN {<<>>}
    ELSE LET shorter == Texts(alphabet, n - 1)
         IN  shorter \cup {text \o c : text \in shorter, c \in alphabet}

SearchedFiles == Texts(TypedChars \cup {<<10>>}, MaxFileLen)

Searching == World(FALSE, SlowDelays, MaxUndo)

InitSearch == StartFrom({open(new(ScreenCols), "file", contents) : contents \in SearchedFiles})

NextSearch ==
    \/ StartSearch(Searching)
    \/ SearchEsc(Searching) \/ SearchEnter(Searching)
    \/ SearchBackspace(Searching) \/ SearchChar(Searching)

SpecSearch == InitSearch /\ [][NextSearch]_vars

---------------------------------------------------------------------------
(* SpecLines: editing and moving in a file that was just opened, whatever its
   contents, typed by a slow typist *)

Browsing == World(FALSE, SlowDelays, MaxUndo)

NextLines ==
    \/ InsertChar(Browsing) \/ Backspace(Browsing) \/ Enter(Browsing)
    \/ Left(Browsing) \/ Right(Browsing) \/ Up(Browsing) \/ Down(Browsing)

SpecLines == InitSearch /\ [][NextLines]_vars

---------------------------------------------------------------------------
(* SpecDraw: the screen is drawn while the cursor moves along the one line of
   a file that was just opened, whatever the line *)

\* the characters of the lines that are drawn
DrawnChars == {ch_a, ch_s, ch_one, ch_slash, ch_quote, ch_eacute, ch_marker}

DrawnLines == Texts(DrawnChars, MaxDrawn)

InitDraw == StartFrom({open(new(DrawCols), "file", line) : line \in DrawnLines})

\* refresh_screen at the head of the input loop
Draw ==
    /\ pc = "running"
    /\ \E r \in {draw_rows(Ed, 0, <<>>)} :
         /\ drawn' = r.printed
         /\ pc' = IF r.panicked THEN "panicked" ELSE "running"
    /\ UNCHANGED <<cursor_x, cursor_y, screen_cols, rows, filename, dirty,
                   last_key_age, last_key, col_offset, undo_stack, redo_stack,
                   search_mode, search_query, search_results, current_match>>

NextDraw == Draw \/ Left(Whole) \/ Right(Whole)

SpecDraw == InitDraw /\ [][NextDraw]_vars

---------------------------------------------------------------------------
(* SpecDebounce: typing, moving and searching in a fresh session, the keys
   coming as fast as a bouncing keyboard delivers them *)

Bouncing == World(TRUE, QuickDelays, MaxUndo)

NextDebounce ==
    \/ InsertChar(Bouncing) \/ Backspace(Bouncing) \/ Enter(Bouncing)
    \/ Left(Bouncing) \/ Debounce(Bouncing)
    \/ NotPress(Bouncing) \/ StartSearch(Bouncing)
    \/ SearchChar(Bouncing) \/ SearchEsc(Bouncing)

SpecDebounce == InitFresh /\ [][NextDebounce]_vars

---------------------------------------------------------------------------
(* What the claims speak of *)

Running == pc = "running"
NormalMode == Running /\ ~search_mode
SearchMode == Running /\ search_mode

\* the cursor as (row, column)
CursorOf(s) == <<s.cursor_y, s.cursor_x>>

\* the number of characters of a string
CharCount(str) == Cardinality({i \in 1..Len(str) : ~IsContinuation(str[i])})

\* a key that process_keypress does not drop
Processed(s, event, dt) ==
    /\ ~s.search_mode
    /\ ~IsSearchKey(event)
    /\ NormalBranch(s, event, Now(s, dt)) \notin {"not_press", "debounced"}

\* the editor after a key typed dt ms after the last event
After(s, event, dt) == main_loop(s, event, dt, TRUE)

\* buffer and cursor are the same in two editors
SameText(s, t) == s.rows = t.rows /\ CursorOf(s) = CursorOf(t)

---------------------------------------------------------------------------
(* C1 *)

\* C1: in a fresh session in which only characters, Backspace and Enter are
\* typed, the buffer always has at least one line, the cursor row is the index
\* of a line, and the cursor column is at most the length of that line (its
\* number of characters, hence also its number of bytes).
C1_TypingKeepsCursorInBuffer ==
    /\ Len(rows) >= 1
    /\ 0 <= cursor_y /\ cursor_y < Len(rows)
    /\ 0 <= cursor_x /\ cursor_x <= CharCount(rows[cursor_y + 1])

\* a character, Enter and a merging Backspace have been typed
C1_Witness ==
    /\ Len(undo_stack) = 3
    /\ Len(undo_stack[2].buffer) = 1 /\ Len(undo_stack[3].buffer) = 2
    /\ Len(rows) = 1 /\ cursor_x = 1

---------------------------------------------------------------------------
(* C2 *)

\* C2: in every reachable Normal-mode state, after any one processed editing
\* key (character, Backspace, Enter) an undo restores the buffer and cursor
\* from before the key, and a redo after that undo restores the buffer and
\* cursor from after the key.
C2_UndoRestoresRedoReplays ==
    NormalMode =>
      \A event \in EditEvents, dt \in AllDelays :
        Processed(Ed, event, dt) =>
          \A edited \in {After(Ed, event, dt)} :
            edited.pc = "running" =>
              \A z \in UndoEvents, x \in RedoEvents, d \in AllDelays :
                \A undone \in {After(edited, z, d)} :
                  /\ Processed(edited, z, d)
                  /\ SameText(undone, Ed)
                  /\ Processed(undone, x, d)
                  /\ SameText(After(undone, x, d), edited)

\* a redo has just replayed an edit that changed the buffer
C2_Witness ==
    /\ NormalMode
    /\ last_key_age = 0 /\ last_key # <<>> /\ last_key[1] \in RedoEvents
    /\ undo_stack # <<>> /\ redo_stack = <<>>
    /\ undo_stack[Len(undo_stack)].buffer # rows

---------------------------------------------------------------------------
(* C3 *)

\* C3: in every reachable Normal-mode state, in particular after undos have
\* filled the redo stack, a processed editing key leaves the redo stack empty,
\* and a redo typed next changes neither the buffer nor the cursor nor either
\* stack; an empty redo stack stays empty under every key but an undo.
C3_EditClearsRedo ==
    NormalMode =>
      /\ \A event \in EditEvents, dt \in AllDelays :
           Processed(Ed, event, dt) =>
             \A edited \in {After(Ed, event, dt)} :
               edited.pc = "running" =>
                 /\ edited.redo_stack = <<>>
                 /\ \A x \in RedoEvents, dx \in AllDelays :
                      \A redone \in {After(edited, x, dx)} :
                        /\ Processed(edited, x, dx)
                        /\ SameText(redone, edited)
                        /\ redone.undo_stack = edited.undo_stack
                        /\ redone.redo_stack = edited.redo_stack
      /\ redo_stack = <<>> =>
           \A other \in Pressed \ UndoEvents, ok \in BOOLEAN :
             main_loop(Ed, other, DebounceMs, ok).redo_stack = <<>>

\* undos have filled the redo stack and an editing key that changes the
\* buffer is about to empty it
C3_Witness ==
    /\ NormalMode
    /\ redo_stack # <<>> /\ undo_stack # <<>>
    /\ \E event \in EditEvents :
         /\ Processed(Ed, event, DebounceMs)
         /\ After(Ed, event, DebounceMs).redo_stack = <<>>
         /\ After(Ed, event, DebounceMs).rows # rows

---------------------------------------------------------------------------
(* C4 *)

\* undo then redo, each processed, gives back buffer and cursor
UndoRedoRestores ==
    \A z \in UndoEvents, x \in RedoEvents, d \in AllDelays :
      Processed(Ed, z, d) => SameText(After(After(Ed, z, d), x, d), Ed)

\* redo then undo, each processed, gives back buffer and cursor
RedoUndoRestores ==
    \A z \in UndoEvents, x \in RedoEvents, d \in AllDelays :
      Processed(Ed, x, d) => SameText(After(After(Ed, x, d), z, d), Ed)

\* C4 as stated: in every reachable state, whatever the stacks hold, undo then
\* redo, and redo then undo, leave buffer and cursor as they were.
C4_AnyStacks == NormalMode => UndoRedoRestores /\ RedoUndoRestores

\* C4 as amended: undo then redo leaves buffer and cursor as they were when
\* the undo stack is not empty or the redo stack is empty; redo then undo does
\* when the redo stack is not empty or the undo stack is empty.
C4_FirstCallPops ==
    NormalMode =>
      /\ undo_stack # <<>> \/ redo_stack = <<>> => UndoRedoRestores
      /\ redo_stack # <<>> \/ undo_stack = <<>> => RedoUndoRestores

\* both stacks hold snapshots, and undo and redo each change the buffer
C4_Witness ==
    /\ NormalMode
    /\ undo_stack # <<>> /\ redo_stack # <<>>
    /\ \E z \in UndoEvents : After(Ed, z, DebounceMs).rows # rows
    /\ \E x \in RedoEvents : After(Ed, x, DebounceMs).rows # rows

---------------------------------------------------------------------------
(* C5 *)

\* C5: whenever a processed Normal-mode key leaves the buffer different from
\* what it was, the dirty flag is true afterwards, and the flag goes from true
\* to false only through a save whose write succeeded.
C5_DirtyFollowsBuffer ==
    NormalMode =>
      \A event \in Pressed, dt \in AllDelays, write_ok \in BOOLEAN :
        Processed(Ed, event, dt) =>
          \A after \in {main_loop(Ed, event, dt, write_ok)} :
            /\ after.rows # rows => after.dirty
            /\ dirty /\ ~after.dirty =>
                 MainBranch(Ed, event, dt, write_ok) = "save_ok"

---------------------------------------------------------------------------
(* C6 *)

\* C6: the save key typed when no filename is set raises no error and leaves
\* the dirty flag, the buffer and the cursor exactly as they were.
C6_UnnamedSaveIsNoOp ==
    NormalMode /\ filename = <<>> =>
      \A event \in SaveEvents, dt \in AllDelays :
        Processed(Ed, event, dt) =>
          \A after \in {After(Ed, event, dt)} :
            /\ after.pc = "running"
            /\ save(Ed, TRUE).ok
            /\ after.dirty = dirty
            /\ SameText(after, Ed)

---------------------------------------------------------------------------
(* C7 *)

\* C7: when the save key is typed with a filename set and the write fails, the
\* buffer, the cursor and the dirty flag are unchanged; the dirty flag goes
\* from true to false only on a write that succeeded.
C7_FailedSaveKeepsDirty ==
    NormalMode /\ filename # <<>> =>
      \A event \in SaveEvents, dt \in AllDelays :
        Processed(Ed, event, dt) =>
          /\ \A after \in {main_loop(Ed, event, dt, FALSE)} :
               after.dirty = dirty /\ SameText(after, Ed)
          /\ \A write_ok \in BOOLEAN :
               dirty /\ ~main_loop(Ed, event, dt, write_ok).dirty => write_ok

---------------------------------------------------------------------------
(* C8 *)

\* the keys that change the query: a character or Backspace typed in the prompt
QueryEvents ==
    {event \in Pressed : SearchBranch(event) \in {"search_char", "search_backspace"}}

\* C8: in Search mode, whenever a query change produces a result list whose
\* first element is (r, c), the cursor is afterwards at row r and column c, and
\* col_offset puts the cursor column inside the visible window.
C8_CursorJumpsToFirstMatch ==
    SearchMode =>
      \A event \in QueryEvents, dt \in AllDelays :
        \A after \in {After(Ed, event, dt)} :
          after.pc = "running" /\ after.search_results # <<>> =>
            /\ after.cursor_y = after.search_results[1][1]
            /\ after.cursor_x = after.search_results[1][2]
            /\ after.col_offset <= after.cursor_x
            /\ after.cursor_x < after.col_offset + after.screen_cols

---------------------------------------------------------------------------
(* C9 *)

\* the numbers of a finite set of integers, ascending
RECURSIVE Ascending(_)
Ascending(S) ==
    IF S = {} THEN <<>>
    ELSE LET least == CHOOSE n \in S : \A m \in S : n <= m
         IN  <<least>> \o Ascending(S \ {least})

\* the places of a line where the query occurs, case ignored
OccurrencesIn(line, q) ==
    {pos \in 0..Len(line) : Occurs(to_lowercase(line), to_lowercase(q), pos)}

\* of those places, the ones a left-to-right scan keeps when it resumes after
\* the end of each match
RECURSIVE Disjoint(_, _, _)
Disjoint(places, width, from) ==
    LET ahead == {pos \in places : pos >= from}
    IN  IF ahead = {} THEN {}
        ELSE LET first == CHOOSE pos \in ahead : \A other \in ahead : pos <= other
             IN  {first} \cup Disjoint(places, width, first + width)

\* (row, column) for the chosen places of every line, row by row
RECURSIVE RowMajor(_, _, _, _)
RowMajor(buffer, q, i, disjoint) ==
    IF i >= Len(buffer) THEN <<>>
    ELSE LET all == OccurrencesIn(buffer[i + 1], q)
             kept == IF disjoint THEN Disjoint(all, Len(q), 0) ELSE all
             cols == Ascending(kept)
         IN  [k \in 1..Len(cols) |-> <<i, cols[k]>>] \o RowMajor(buffer, q, i + 1, disjoint)

---------------------------------------------------------------------------
(* C10 *)

SearchEnterEvents == {event \in Pressed : SearchBranch(event) = "search_enter"}

\* the editor after Enter is typed k times in the prompt
RECURSIVE Enters(_, _, _)
Enters(s, event, k) ==
    IF k = 0 THEN s ELSE Enters(After(s, event, DebounceMs), event, k - 1)

\* the cursor is on the current match
OnCurrentMatch(s) == CursorOf(s) = s.search_results[s.current_match + 1]

\* C10: with n > 0 results, Enter in Search mode sets current_index to
\* (current_index + 1) mod n and puts the cursor on that result; Enter on the
\* last result goes to the first, and n Enters in a row bring current_index
\* back to where it was with the cursor on that match.
C10_EnterCycles ==
    SearchMode /\ search_results # <<>> =>
      \A event \in SearchEnterEvents, dt \in AllDelays :
        \A after \in {After(Ed, event, dt)}, round \in {Enters(Ed, event, Len(search_results))} :
          /\ after.current_match = (current_match + 1) % Len(search_results)
          /\ OnCurrentMatch(after)
          /\ after.search_results = search_results
          /\ current_match = Len(search_results) - 1 => after.current_match = 0
          /\ round.current_match = current_match
          /\ OnCurrentMatch(round)

\* Enter has wrapped from the last of several matches to the first, which is
\* not where the search itself left the cursor
C10_Witness ==
    /\ SearchMode
    /\ Len(search_results) >= 3 /\ current_match = 0
    /\ search_results[1][1] # search_results[1][2]
    /\ OnCurrentMatch(Ed)

---------------------------------------------------------------------------
(* C11 *)

\* the cursor addresses a position of the buffer: an existing row and, in it,
\* the start of a character or the end of the line
ValidCursor(s) ==
    /\ s.cursor_y < Len(s.rows)
    /\ s.cursor_x <= Len(s.rows[s.cursor_y + 1])
    /\ IsCharBoundary(s.rows[s.cursor_y + 1], s.cursor_x)

---------------------------------------------------------------------------
(* C12 *)

\* C12: Backspace in Normal mode with the cursor at column 0 of a row > 0
\* removes the current line and appends its text to the previous line, the
\* line count goes down by exactly one, and the cursor becomes (row - 1, the
\* length the previous line had before); at (0, 0) buffer and cursor stay.
C12_BackspaceJoinsLines ==
    NormalMode /\ cursor_x = 0 =>
      \A event \in BackspaceEvents, dt \in AllDelays :
        Processed(Ed, event, dt) =>
          \A after \in {After(Ed, event, dt)} :
            /\ after.pc = "running"
            /\ cursor_y > 0 /\ cursor_y < Len(rows) =>
                 /\ Len(after.rows) = Len(rows) - 1
                 /\ after.rows[cursor_y] = rows[cursor_y] \o rows[cursor_y + 1]
                 /\ \A i \in 1..cursor_y - 1 : after.rows[i] = rows[i]
                 /\ \A i \in cursor_y + 2..Len(rows) : after.rows[i - 1] = rows[i]
                 /\ CursorOf(after) = <<cursor_y - 1, Len(rows[cursor_y])>>
            /\ cursor_y = 0 => SameText(after, Ed)

\* Backspace has just joined two non-empty lines of a file
C12_Witness ==
    /\ NormalMode
    /\ last_key # <<>> /\ last_key[1] \in BackspaceEvents /\ last_key_age = 0
    /\ Len(undo_stack) = 1
    /\ Len(undo_stack[1].buffer) = Len(rows) + 1
    /\ undo_stack[1].cursor_x = 0
    /\ cursor_x > 0 /\ cursor_y < Len(rows) /\ cursor_x < Len(rows[cursor_y + 1])

---------------------------------------------------------------------------
(* C13 *)

\* a file was named at startup and no key has changed the editor since
JustLoaded ==
    /\ NormalMode /\ filename # <<>>
    /\ last_key = <<>> /\ undo_stack = <<>> /\ redo_stack = <<>> /\ ~dirty

\* C13: after a load the buffer has at least one line, even when the file was
\* empty, so that the cursor (0, 0) addresses an existing line and a character
\* typed next is inserted.
C13_LoadedBufferHasALine ==
    JustLoaded =>
      /\ Len(rows) >= 1
      /\ CursorOf(Ed) = <<0, 0>> /\ cursor_y < Len(rows)
      /\ \A event \in CharEvents, dt \in AllDelays :
           \A after \in {After(Ed, event, dt)} :
             /\ after.pc = "running"
             /\ after.rows # rows /\ after.dirty

---------------------------------------------------------------------------
(* C14 *)

\* the texts of a list of tokens, one after the other
RECURSIVE TokenText(_)
TokenText(tokens) ==
    IF tokens = <<>> THEN <<>> ELSE tokens[1].text \o TokenText(Tail(tokens))

\* C14: for every line handed to the tokenizer, lines with "//", with an
\* unterminated string and with non-ASCII characters such as the scroll marker
\* included, the texts of the tokens returned, in order, spell exactly the
\* line.
C14_TokensSpellTheLine ==
    Running =>
      \A i \in 0..Len(rows) - 1 :
        \A shown \in {display_line(Ed, i)} :
          ~shown.panicked =>
            \A r \in {highlight_line(shown.text)} :
              ~r.panicked /\ TokenText(r.tokens) = shown.text

---------------------------------------------------------------------------
(* C15 *)

\* every key of the model, released or repeated
NotPressEvents ==
    {Event(kind, event.code, event.modifiers) :
        kind \in {"Release", "Repeat"}, event \in Pressed}

\* two editors are in the same state, the clock aside
SameEditor(s, t) == [s EXCEPT !.last_key_age = 0] = [t EXCEPT !.last_key_age = 0]

\* C15: in either mode a key event of kind Release or Repeat, whatever its
\* code and modifiers (Alt+f and Alt+q included), leaves the whole editor
\* state unchanged, the mode included.
C15_OnlyPressesAct ==
    Running =>
      \A event \in NotPressEvents, dt \in AllDelays :
        SameEditor(After(Ed, event, dt), Ed)

---------------------------------------------------------------------------
(* C16 *)

\* the key events delivered in a session without non-ASCII characters
Delivered == {event \in KeyEvents : Len(event.code.ch) <= 1}

\* the presses that change the editor whenever they are processed: every
\* press in Normal mode (it restarts the clock), a character or Esc in Search
\* mode
Telling(s) ==
    {event \in Delivered \cap Pressed :
        s.search_mode => IsChar(event.code) \/ event.code.key = "Esc"}

\* a key event was discarded: only the time has passed
Discarded(s, event, dt) ==
    After(s, event, dt) = [s EXCEPT !.last_key_age = Now(s, dt)]

SameKey(e1, e2) == e1.code = e2.code /\ e1.modifiers = e2.modifiers

\* process_keypress took the event and ran an arm of its match on it
Accepted(s, event, dt) ==
    /\ ~s.search_mode /\ ~IsSearchKey(event)
    /\ event.kind = "Press"
    /\ ~Discarded(s, event, dt)

\* C16 as stated: a press is discarded exactly when the key event delivered
\* just before it, in whichever mode that one was handled, had the same code
\* and modifiers and came less than 50 ms earlier.
C16_DebounceAgainstPrecedingEvent ==
    Running =>
      \A before \in Delivered \cap Pressed, dt1 \in QuickDelays :
        \A s \in {After(Ed, before, dt1)} :
          s.pc = "running" =>
            \A event \in Telling(s), dt \in QuickDelays :
              Discarded(s, event, dt) <=> SameKey(before, event) /\ dt < DebounceMs

\* C16 as amended: a press is discarded exactly when it is handled by
\* process_keypress and the last press process_keypress accepted had the same
\* code and modifiers and came less than 50 ms earlier; an event that is not
\* accepted (discarded, not a press, Alt+f, handled in Search mode) neither
\* becomes the key compared with nor restarts the 50 ms.
C16_DebounceAgainstLastAccepted ==
    Running =>
      \A before \in Delivered, dt1 \in QuickDelays :
        \A s \in {After(Ed, before, dt1)} :
          s.pc = "running" =>
            /\ IF Accepted(Ed, before, dt1)
               THEN s.last_key = <<before>> /\ s.last_key_age = 0
               ELSE s.last_key = last_key /\ s.last_key_age = Now(Ed, dt1)
            /\ \A event \in Telling(s), dt \in QuickDelays :
                 Discarded(s, event, dt) <=>
                   /\ ~s.search_mode /\ ~IsSearchKey(event)
                   /\ s.last_key # <<>> /\ SameKey(s.last_key[1], event)
                   /\ s.last_key_age + dt < DebounceMs

\* a character was typed and no event of the 30 ms since then was accepted:
\* a press of the character 15 ms later is discarded, one 50 ms later is
\* processed
C16_Witness ==
    /\ NormalMode
    /\ last_key # <<>> /\ IsChar(last_key[1].code) /\ last_key_age = 30
    /\ Discarded(Ed, last_key[1], 15)
    /\ Accepted(Ed, last_key[1], DebounceMs)

---------------------------------------------------------------------------
(* C17 *)

\* C17: in every state reachable by keystrokes of both modes the cursor
\* satisfies 0 <= row < number of lines and 0 <= col <= length of its line.
C17_CursorInBuffer ==
    Running =>
      /\ 0 <= cursor_y /\ cursor_y < Len(rows)
      /\ 0 <= cursor_x /\ cursor_x <= CharCount(rows[cursor_y + 1])

---------------------------------------------------------------------------
(* C18 *)

\* the cursor column is inside the window of s
InWindow(s) ==
    s.col_offset <= s.cursor_x /\ s.cursor_x < s.col_offset + s.screen_cols

Distance(a, b) == IF a < b THEN b - a ELSE a - b

\* t shows the cursor, with the window of s moved no further than needed
ScrolledFrom(s, t) ==
    /\ InWindow(t)
    /\ \A offset \in 0..t.cursor_x :
         InWindow([t EXCEPT !.col_offset = offset])
            => Distance(s.col_offset, t.col_offset) <= Distance(s.col_offset, offset)

\* the presses that make the cursor jump in Search mode: Enter with results,
\* and a change of the query that finds something
Jumps(s, event) ==
    \/ SearchBranch(event) = "search_enter" /\ s.search_results # <<>>
    \/ /\ SearchBranch(event) \in {"search_char", "search_backspace"}
       /\ After(s, event, DebounceMs).search_results # <<>>

\* C18: with screen_cols >= 1, after every keystroke processed in Normal mode
\* and after every cursor jump made in Search mode,
\* col_offset <= cursor column < col_offset + screen_cols; col_offset stays
\* when the cursor was inside the window already and otherwise moves by the
\* least amount that brings the cursor column inside.
C18_WindowFollowsCursor ==
    Running /\ screen_cols >= 1 =>
      /\ InWindow(Ed)
      /\ \A event \in Pressed, dt \in AllDelays :
           (IF search_mode THEN Jumps(Ed, event) ELSE Processed(Ed, event, dt)) =>
             \A after \in {After(Ed, event, dt)} :
               after.pc = "running" => ScrolledFrom(Ed, after)

\* a processed key has moved the cursor past the right edge and the window
\* has followed it by one column
C18_Witness ==
    /\ NormalMode /\ last_key # <<>> /\ last_key_age = 0
    /\ last_key[1] \in RightEvents \cup CharEvents
    /\ col_offset > 0 /\ cursor_x = col_offset + screen_cols - 1
    /\ \E event \in LeftEvents :
         \A after \in {After(Ed, event, DebounceMs)} :
           after.col_offset = col_offset /\ after.cursor_x = cursor_x - 1

---------------------------------------------------------------------------
(* C19 *)

\* C19: no key event handled in Search mode changes the buffer, the dirty
\* flag, the undo stack or the redo stack; Esc also empties the query and the
\* result list and switches to Normal mode; Enter leaves the mode and the
\* query as they were.
C19_SearchLeavesTextAlone ==
    SearchMode =>
      \A event \in KeyEvents, dt \in AllDelays :
        \A after \in {After(Ed, event, dt)} :
          /\ after.rows = rows /\ after.dirty = dirty
          /\ after.undo_stack = undo_stack /\ after.redo_stack = redo_stack
          /\ SearchBranch(event) = "search_esc" =>
               /\ after.pc = "running"
               /\ after.search_query = <<>> /\ after.search_results = <<>>
               /\ ~after.search_mode
          /\ SearchBranch(event) = "search_enter" =>
               /\ after.pc = "running"
               /\ after.search_mode /\ after.search_query = search_query

\* Esc has ended a search that had moved to its second match, in a buffer
\* with unsaved changes and an edit to undo
C19_Witness ==
    /\ NormalMode
    /\ dirty /\ undo_stack # <<>>
    /\ search_query = <<>> /\ search_results = <<>> /\ current_match > 0

---------------------------------------------------------------------------
(* C20 *)

\* C20: in every reachable state whose result list is non-empty,
\* current_index < length of the result list, across search activation, query
\* growth, query shrinkage down to the empty query, Enter and Esc.
C20_CurrentMatchInResults ==
    /\ Running /\ search_results # <<>> =>
         0 <= current_match /\ current_match < Len(search_results)
    /\ Running =>
         \A event \in SearchEvents \cap Pressed, dt \in AllDelays :
           \A after \in {After(Ed, event, dt)} :
             after.pc = "running" /\ after.search_results # <<>> =>
               after.current_match < Len(after.search_results)

\* the search is on the last of its matches, found for a query of two
\* characters
C20_Witness ==
    /\ SearchMode
    /\ Len(search_query) = 2
    /\ Len(search_results) >= 2 /\ current_match = Len(search_results) - 1

---------------------------------------------------------------------------
(* C21 *)

\* the presses whose arms index a row or cut a line at the cursor
CursorKeyEvents == LeftEvents \cup UpEvents \cup BackspaceEvents \cup EnterEvents

SearchEscEvents == {event \in Pressed : SearchBranch(event) = "search_esc"}

\* the editor back in Normal mode: as it is, or after Esc ends the search
BackInNormalMode ==
    IF search_mode THEN {After(Ed, event, DebounceMs) : event \in SearchEscEvents}
    ELSE {Ed}

\* C21: in a session whose buffer starts with at least one line, no sequence
\* of keystrokes of both modes reaches a state in which Left, Up, Backspace or
\* Enter indexes a row that does not exist, or removes from or splits a line
\* beyond its end, and panics.
C21_CursorKeysNeverPanic ==
    Running /\ rows # <<>> =>
      \A s \in BackInNormalMode, event \in CursorKeyEvents :
        After(s, event, DebounceMs).pc # "panicked"

=============================================================================
